---- MODULE Spec2Model ----
(***************************************************************************)
(* Verification model of kfreiman/vibecheck: the content-addressed         *)
(* document store (internal/storage), the retry harness and ingestion      *)
(* pipeline (internal/ingest, internal/mcp/ingest_tool.go) and the two     *)
(* frontmatter strippers (analysis path and MCP resource read).            *)
(*                                                                         *)
(* Byte strings are sequences of one-character tokens ("nl" is a newline,  *)
(* "NUL" the zero byte).  The fixed key texts of the frontmatter and the   *)
(* RFC3339 timestamp are single tokens: they have a fixed width and hold   *)
(* neither a newline nor a run of dashes, so searching for "---\n" over    *)
(* tokens gives what the byte search gives.                                *)
(***************************************************************************)
EXTENDS Naturals, Integers, Sequences, FiniteSets, TLC

VARIABLES files, now, cfg, srv, pc, loc, ret, prev, opsLeft, live

vars == <<files, now, cfg, srv, pc, loc, ret, prev, opsLeft, live>>

\* ------------------------------------------------------------------ bounds
MaxTime == 2
MaxOps == 3
IdLen == 2

\* ------------------------------------------------------- string primitives
Alphabet == <<"NUL", "nl", " ", "-", ".", "/", "0", "1", "2", "3", "4", "5", "6",
              ":", "a", "b", "c", "d", "f", "h", "j", "m", "p", "t", "v", "x", "y",
              "id: ", "original_filename: ", "ingested_at: ", "type: ",
              "t0", "t1", "t2", "t3", "t4", "t5", "t6", "t7">>

Rank(c) == CHOOSE i \in 1..Len(Alphabet) : Alphabet[i] = c

Max(S) == CHOOSE x \in S : \A y \in S : y <= x

Min(S) == CHOOSE x \in S : \A y \in S : x <= y

\* byte-wise string comparison, the order os.ReadDir sorts entries by
RECURSIVE SeqLess(_, _)
SeqLess(a, b) ==
    IF a = <<>> THEN b # <<>>
    ELSE IF b = <<>> THEN FALSE
    ELSE IF Head(a) = Head(b) THEN SeqLess(Tail(a), Tail(b))
    ELSE Rank(Head(a)) < Rank(Head(b))

RECURSIVE SortNames(_)
SortNames(S) ==
    IF S = {} THEN <<>>
    ELSE LET m == CHOOSE x \in S : \A y \in S \ {x} : SeqLess(x, y)
         IN  <<m>> \o SortNames(S \ {m})

\* strings.Index: 0-based offset of the first occurrence of sub in s, -1 if none
Index(s, sub) ==
    LET hits == {i \in 1..(Len(s) - Len(sub) + 1) : SubSeq(s, i, i + Len(sub) - 1) = sub}
    IN  IF Len(sub) > Len(s) \/ hits = {} THEN -1 ELSE Min(hits) - 1

Contains(s, sub) == Index(s, sub) >= 0

HasPrefix(s, pre) == Len(s) >= Len(pre) /\ SubSeq(s, 1, Len(pre)) = pre

Drop(s, n) == SubSeq(s, n + 1, Len(s))

IsSpace(c) == c \in {" ", "nl"}

\* strings.TrimSpace
TrimSpace(s) ==
    LET keep == {i \in 1..Len(s) : ~IsSpace(s[i])}
    IN  IF keep = {} THEN <<>> ELSE SubSeq(s, Min(keep), Max(keep))

\* filepath.Ext: the suffix from the last dot of the last path element
Ext(name) ==
    LET dots == {i \in 1..Len(name) :
                    name[i] = "." /\ \A j \in i..Len(name) : name[j] # "/"}
    IN  IF dots = {} THEN <<>> ELSE SubSeq(name, Max(dots), Len(name))

\* --------------------------------------------------------- input universes
Kinds == {"cv", "jd"}

BodyA == <<"a">>
BodyB == <<"b">>
BodyWs == <<" ", "a", "nl">>
BodyDash == <<"a", "nl", "-", "-", "-", "nl", "b">>
\* a path with a NUL byte, which is a document body when it is taken as text
PNul == <<"d", "NUL", ".", "p", "d", "f">>

BodyList == <<BodyA, BodyB, BodyWs, BodyDash, <<>>, PNul>>

FnAMd == <<"a", ".", "m", "d">>
FnBbMd == <<"b", "b", ".", "m", "d">>
FnBTxt == <<"b", ".", "t", "x", "t">>
FnNoExt == <<"c">>

Digits == <<"1", "2", "3", "4", "5", "6">>

TimeStamps == <<"t0", "t1", "t2", "t3", "t4", "t5", "t6", "t7">>

\* time.Now().UTC().Format(time.RFC3339): one fixed-width token per instant
TimeStr(t) == TimeStamps[t + 1]

\* ------------------------------------------------------ the document store
DefaultTTL == 1

KindChars(k) == IF k = "cv" THEN <<"c", "v">> ELSE <<"j", "d">>

\* GenerateID: a UUIDv5 of the SHA-1 of the content, modelled as an injective
\* map from contents to fixed-length identifiers (hash collisions left out)
GenerateID(content) ==
    LET i == CHOOSE j \in 1..Len(BodyList) : BodyList[j] = content
    IN  [k \in 1..IdLen |-> IF k = IdLen THEN Digits[i] ELSE "0"]

URI(k, id) == KindChars(k) \o <<":", "/", "/">> \o id

\* a parser that lets a scheme with nothing after it through
ParseURI_EmptyID(uri) ==
    IF Len(uri) < 5 THEN [ok |-> FALSE, kind |-> "none", id |-> <<>>]
    ELSE LET scheme == SubSeq(uri, 1, 5)
         IN  IF scheme = <<"c", "v", ":", "/", "/">>
                THEN [ok |-> TRUE, kind |-> "cv", id |-> Drop(uri, 5)]
             ELSE IF scheme = <<"j", "d", ":", "/", "/">>
                THEN [ok |-> TRUE, kind |-> "jd", id |-> Drop(uri, 5)]
             ELSE [ok |-> FALSE, kind |-> "none", id |-> <<>>]

ParseURI(uri) ==
    IF Len(uri) < 6 THEN [ok |-> FALSE, kind |-> "none", id |-> <<>>]
    ELSE LET scheme == SubSeq(uri, 1, 5)
         IN  IF scheme = <<"c", "v", ":", "/", "/">>
                THEN [ok |-> TRUE, kind |-> "cv", id |-> Drop(uri, 5)]
             ELSE IF scheme = <<"j", "d", ":", "/", "/">>
                THEN [ok |-> TRUE, kind |-> "jd", id |-> Drop(uri, 5)]
             ELSE [ok |-> FALSE, kind |-> "none", id |-> <<>>]

Frontmatter(id, fn, ts, k) ==
    <<"-", "-", "-", "nl", "id: ">> \o id \o
    <<"nl", "original_filename: ">> \o fn \o
    <<"nl", "ingested_at: ", ts, "nl", "type: ">> \o KindChars(k) \o
    <<"nl", "-", "-", "-", "nl", "nl">>

\* the extension SaveDocument gives the stored file
SaveExt(fn) == IF Ext(fn) = <<>> THEN <<".", "m", "d">> ELSE Ext(fn)

SavePath(k, content, fn) == [kind |-> k, name |-> GenerateID(content) \o SaveExt(fn)]

NoPath == [kind |-> "none", name |-> <<>>]

\* os.ReadDir of <root>/<kind>: the entry names, sorted by filename
ReadDir(fs, k) == SortNames({q.name : q \in {r \in DOMAIN fs : r.kind = k}})

\* the loop of GetDocumentPath over the entries: the slice expression
\* entry.Name()[:len(id)] is evaluated before the length test and panics on
\* an entry shorter than the ID
RECURSIVE ScanEntries(_, _, _)
ScanEntries(entries, k, id) ==
    IF entries = <<>> THEN [status |-> "notfound", path |-> NoPath]
    ELSE LET name == Head(entries)
         IN  IF Ext(name) # <<>>
                THEN IF Len(name) < Len(id)
                        THEN [status |-> "panic", path |-> NoPath]
                     ELSE IF SubSeq(name, 1, Len(id)) = id
                        THEN [status |-> "ok", path |-> [kind |-> k, name |-> name]]
                     ELSE ScanEntries(Tail(entries), k, id)
             ELSE ScanEntries(Tail(entries), k, id)

\* a resolver that looks only for <id>.md instead of scanning the directory
GetDocumentPath_MdOnly(fs, uri) ==
    LET pr == ParseURI(uri)
        q == [kind |-> pr.kind, name |-> pr.id \o <<".", "m", "d">>]
    IN  IF ~pr.ok THEN [status |-> "parse", path |-> NoPath]
        ELSE IF q \in DOMAIN fs THEN [status |-> "ok", path |-> q]
        ELSE [status |-> "notfound", path |-> NoPath]

GetDocumentPath(fs, uri) ==
    LET pr == ParseURI(uri)
    IN  IF ~pr.ok THEN [status |-> "parse", path |-> NoPath]
        ELSE ScanEntries(ReadDir(fs, pr.kind), pr.kind, pr.id)

\* ReadDocument run without interruption: the bytes, or the error it returns
ReadDocument(fs, uri) ==
    LET r == GetDocumentPath(fs, uri)
    IN  IF r.status = "ok"
           THEN [status |-> "ok", data |-> fs[r.path].data, err |-> "none"]
        ELSE [status |-> IF r.status = "panic" THEN "panic" ELSE "error",
              data |-> <<>>,
              err |-> IF r.status = "parse" THEN "parse URI" ELSE "find document"]

DocumentExists(fs, uri) ==
    LET r == GetDocumentPath(fs, uri)
    IN  r.status = "ok" /\ r.path \in DOMAIN fs

\* a write of new at offset 0 of a file holding old: bytes past the end of
\* new stay (os.WriteFile truncates when it opens, not when it writes)
Overlay(new, old) == new \o SubSeq(old, Len(new) + 1, Len(old))

\* ------------------------------------------------- frontmatter strippers
Marker == <<"-", "-", "-", "nl">>

\* analysis path: regexp (?s)^---\n.*?\n---\n? replaced by "", then TrimSpace
stripFrontmatter(content) ==
    LET closer == <<"nl", "-", "-", "-">>
        ends == {j \in 5..(Len(content) - 3) : SubSeq(content, j, j + 3) = closer}
        cleaned == IF HasPrefix(content, Marker) /\ ends # {}
                      THEN LET j == Min(ends)
                           IN  IF j + 4 <= Len(content) /\ content[j + 4] = "nl"
                                  THEN Drop(content, j + 4)
                               ELSE Drop(content, j + 3)
                   ELSE content
    IN  TrimSpace(cleaned)

\* MCP resource read: cut after the second "---\n"
ResourceStrip(text) ==
    LET s == Index(text, Marker)
    IN  IF s < 0 THEN text
        ELSE LET e == Index(Drop(text, s + 4), Marker)
             IN  IF e < 0 THEN text ELSE Drop(text, s + 4 + e + 4)

\* ------------------------------------------------------- request workers
Workers == {"w1", "w2"}

\* the goroutine a cleanup ticker would run
Sweepers == {"sw"}

Goroutines == Workers \cup Sweepers

\* Each request is served by its own goroutine; pc is the goroutine's
\* position, loc its local variables, ret what its last call returned.
EmptyStore == [q \in {} |-> [data |-> <<>>, mtime |-> 0]]

NoLoc == [op |-> "none", kind |-> "none", body |-> <<>>, fn |-> <<>>,
          uri |-> <<>>, path |-> NoPath, full |-> <<>>, unlinked |-> FALSE,
          overlap |-> FALSE, view |-> "raw", cutoff |-> 0, kinds |-> <<>>, todo |-> <<>>, removed |-> 0,
          surface |-> "none", input |-> <<>>, typ |-> "none", attempt |-> 0,
          resume |-> "none", primaryFailed |-> FALSE, fallbackFailed |-> FALSE,
          convCalls |-> 0, readCalls |-> 0, statCalls |-> 0, slept |-> <<>>,
          before |-> EmptyStore,
          max |-> 0, base |-> 0, calls |-> <<>>, outcomes |-> <<>>,
          ctxDone |-> FALSE, woken |-> "none", cancelledAsleep |-> FALSE,
          ranAfterCancel |-> FALSE, nominal |-> 0, tried |-> {}, args |-> <<>>,
          known |-> FALSE, retAt |-> 0]

NoRet == [status |-> "none", uri |-> <<>>, data |-> <<>>, err |-> "none", removed |-> 0,
          note |-> "none", cause |-> 0, attempts |-> 0, list |-> <<>>,
          exists |-> FALSE, path |-> NoPath, code |-> 0, prompt |-> <<>>, result |-> <<>>]

NoPrev == [op |-> "none", kind |-> "none", body |-> <<>>, status |-> "none", uri |-> <<>>,
           at |-> 0]

\* the time a call returned, kept where a specification asks for it
Stamp == IF "stamps" \in DOMAIN cfg THEN now ELSE 0

\* the locals that outlive a call: what was called and with what
Returned(l) == [NoLoc EXCEPT !.op = l.op, !.kind = l.kind, !.body = l.body, !.fn = l.fn,
                             !.uri = l.uri, !.path = l.path, !.unlinked = l.unlinked,
                             !.overlap = l.overlap, !.view = l.view,
                             !.surface = l.surface, !.input = l.input, !.typ = l.typ,
                             !.primaryFailed = l.primaryFailed,
                             !.fallbackFailed = l.fallbackFailed,
                             !.convCalls = l.convCalls, !.readCalls = l.readCalls,
                             !.statCalls = l.statCalls, !.slept = l.slept,
                             !.before = IF l.op = "cleanup" THEN EmptyStore ELSE l.before,
                             !.max = l.max, !.base = l.base, !.calls = l.calls,
                             !.outcomes = l.outcomes, !.ctxDone = l.ctxDone,
                             !.cancelledAsleep = l.cancelledAsleep,
                             !.ranAfterCancel = l.ranAfterCancel, !.args = l.args,
                             !.known = l.known, !.retAt = Stamp]

OkURI(u) == [NoRet EXCEPT !.status = "ok", !.uri = u]

Failed(e) == [NoRet EXCEPT !.status = "error", !.err = e]

\* a worker takes up its next call: remember what the last one was
Begin(p) ==
    /\ pc[p] = "ready"
    /\ opsLeft > 0
    /\ opsLeft' = opsLeft - 1
    /\ prev' = [prev EXCEPT ![p] = [op |-> loc[p].op, kind |-> loc[p].kind,
                                    body |-> loc[p].body,
                                    status |-> ret[p].status, uri |-> ret[p].uri,
                                    at |-> loc[p].retAt]]

\* SaveDocument up to the os.Stat, for a caller whose locals are base: the
\* dedup return, or the frontmatter is composed and the write is still to come
SaveDocumentStat(p, base, k, b, fn) ==
    LET path == SavePath(k, b, fn)
        uri == URI(k, GenerateID(b))
        others == {q \in Goroutines \ {p} : /\ pc[q] \in {"save_open", "save_write"}
                                          /\ loc[q].kind = k /\ loc[q].body = b}
        l == [base EXCEPT !.kind = k, !.body = b, !.fn = fn,
                          !.uri = uri, !.path = path, !.overlap = (others # {})]
        lw == [l EXCEPT !.full = Frontmatter(GenerateID(b), fn, TimeStr(now), k) \o b]
        seen == path \in DOMAIN files
    IN  /\ loc' = [q \in Goroutines |->
                     IF q = p THEN (IF seen THEN Returned(l) ELSE lw)
                     ELSE IF q \in others THEN [loc[q] EXCEPT !.overlap = TRUE]
                     ELSE loc[q]]
        /\ IF seen
              THEN /\ pc' = [pc EXCEPT ![p] = "ready"]
                   /\ ret' = [ret EXCEPT ![p] = OkURI(uri)]
                   /\ live' = live \cup {uri}
              ELSE /\ pc' = [pc EXCEPT ![p] = "save_open"]
                   /\ ret' = [ret EXCEPT ![p] = NoRet]
                   /\ live' = live

\* a call of SaveDocument by a client of the storage manager
SaveStat(p, k, b, fn) ==
    /\ Begin(p)
    /\ SaveDocumentStat(p, [NoLoc EXCEPT !.op = "save"], k, b, fn)
    /\ UNCHANGED <<files, now, cfg, srv>>

\* os.WriteFile, first half: OpenFile(O_WRONLY|O_CREATE|O_TRUNC)
SaveOpen(p) ==
    /\ pc[p] = "save_open"
    /\ files' = [q \in DOMAIN files \cup {loc[p].path} |->
                    IF q = loc[p].path THEN [data |-> <<>>, mtime |-> now] ELSE files[q]]
    /\ pc' = [pc EXCEPT ![p] = "save_write"]
    /\ UNCHANGED <<now, cfg, srv, loc, ret, prev, opsLeft, live>>

\* os.WriteFile, second half: Write at offset 0 and Close.  A file unlinked
\* since it was opened takes the bytes but is no longer in the directory.
SaveWrite(p) ==
    /\ pc[p] = "save_write"
    /\ files' = IF loc[p].unlinked THEN files
                ELSE [files EXCEPT ![loc[p].path] =
                         [data |-> Overlay(loc[p].full, @.data), mtime |-> now]]
    /\ pc' = [pc EXCEPT ![p] = "ready"]
    /\ ret' = [ret EXCEPT ![p] = OkURI(loc[p].uri)]
    /\ live' = IF loc[p].unlinked THEN live ELSE live \cup {loc[p].uri}
    /\ loc' = [loc EXCEPT ![p] = Returned(@)]
    /\ UNCHANGED <<now, cfg, srv, prev, opsLeft>>

\* what a reader hands on: the file as stored (ReadDocument), the text the
\* analysis path scores, or the text of the MCP resource
View(view, data) ==
    IF view = "analysis" THEN stripFrontmatter(data)
    ELSE IF view = "resource" THEN ResourceStrip(data)
    ELSE data

\* ReadDocument, first half: GetDocumentPath
ReadResolve(p, uri, view) ==
    LET r == GetDocumentPath(files, uri)
        l == [NoLoc EXCEPT !.op = "read", !.uri = uri, !.path = r.path, !.view = view,
                           !.known = (uri \in live)]
    IN  /\ Begin(p)
        /\ loc' = [loc EXCEPT ![p] = l]
        /\ IF r.status = "ok"
              THEN /\ pc' = [pc EXCEPT ![p] = "read_file"]
                   /\ ret' = [ret EXCEPT ![p] = NoRet]
              ELSE /\ pc' = pc
                   /\ ret' = [ret EXCEPT ![p] =
                                IF r.status = "panic" THEN [NoRet EXCEPT !.status = "panic"]
                                ELSE IF r.status = "parse" THEN Failed("parse URI")
                                ELSE Failed("find document")]
        /\ UNCHANGED <<files, now, cfg, srv, live>>

\* ReadDocument, second half: os.ReadFile of the resolved path.  Open and
\* read are one step: a file unlinked while it is open is still read whole.
ReadFile(p) ==
    /\ pc[p] = "read_file"
    /\ pc' = [pc EXCEPT ![p] = "ready"]
    /\ ret' = [ret EXCEPT ![p] =
                 IF loc[p].path \in DOMAIN files
                    THEN [NoRet EXCEPT !.status = "ok", !.uri = loc[p].uri,
                                       !.data = View(loc[p].view, files[loc[p].path].data)]
                    ELSE Failed("read document")]
    /\ loc' = [loc EXCEPT ![p] = Returned(@)]
    /\ UNCHANGED <<files, now, cfg, srv, prev, opsLeft, live>>

\* a call of GetDocumentPath by a client of the storage manager
GetPath(p, uri) ==
    LET r == GetDocumentPath(files, uri)
    IN  /\ Begin(p)
        /\ loc' = [loc EXCEPT ![p] = [NoLoc EXCEPT !.op = "getpath", !.uri = uri]]
        /\ pc' = pc
        /\ ret' = [ret EXCEPT ![p] =
                     IF r.status = "ok" THEN [NoRet EXCEPT !.status = "ok", !.path = r.path]
                     ELSE IF r.status = "panic" THEN [NoRet EXCEPT !.status = "panic"]
                     ELSE IF r.status = "parse" THEN Failed("parse URI")
                     ELSE Failed("find document")]
        /\ UNCHANGED <<files, now, cfg, srv, live>>

\* DocumentExists, first half: GetDocumentPath; an error is answered false,
\* a panic of the slice expression unwinds through DocumentExists
ExistsResolve(p, uri) ==
    LET r == GetDocumentPath(files, uri)
        l == [NoLoc EXCEPT !.op = "exists", !.uri = uri, !.path = r.path]
    IN  /\ Begin(p)
        /\ loc' = [loc EXCEPT ![p] = l]
        /\ pc' = [pc EXCEPT ![p] = IF r.status = "ok" THEN "exists_stat" ELSE "ready"]
        /\ ret' = [ret EXCEPT ![p] =
                     IF r.status = "ok" THEN NoRet
                     ELSE IF r.status = "panic" THEN [NoRet EXCEPT !.status = "panic"]
                     ELSE [NoRet EXCEPT !.status = "ok", !.exists = FALSE]]
        /\ UNCHANGED <<files, now, cfg, srv, live>>

\* DocumentExists, second half: os.Stat of the resolved path
ExistsStat(p) ==
    /\ pc[p] = "exists_stat"
    /\ pc' = [pc EXCEPT ![p] = "ready"]
    /\ ret' = [ret EXCEPT ![p] = [NoRet EXCEPT !.status = "ok",
                                              !.exists = (loc[p].path \in DOMAIN files)]]
    /\ loc' = [loc EXCEPT ![p] = Returned(@)]
    /\ UNCHANGED <<files, now, cfg, srv, prev, opsLeft, live>>

\* where Cleanup's loops go on after an entry
AfterEntry(todo, kinds) ==
    IF todo # <<>> THEN "cl_info" ELSE IF kinds # <<>> THEN "cl_readdir" ELSE "ready"

\* Cleanup: the cutoff
CleanupStart(p, ttl) ==
    /\ Begin(p)
    /\ loc' = [loc EXCEPT ![p] =
                 [NoLoc EXCEPT !.op = "cleanup",
                               !.cutoff = now - (IF ttl = 0 THEN DefaultTTL ELSE ttl),
                               !.nominal = now - ttl, !.before = files,
                               !.kinds = <<"cv", "jd">>]]
    /\ pc' = [pc EXCEPT ![p] = "cl_readdir"]
    /\ ret' = [ret EXCEPT ![p] = NoRet]
    /\ UNCHANGED <<files, now, cfg, srv, live>>

\* Cleanup: os.ReadDir of the next kind's directory
CleanupReadDir(p) ==
    LET k == Head(loc[p].kinds)
        todo == ReadDir(files, k)
        rest == Tail(loc[p].kinds)
        next == AfterEntry(todo, rest)
    IN  /\ pc[p] = "cl_readdir"
        /\ loc' = [loc EXCEPT ![p] = IF next = "ready" THEN Returned(@)
                                       ELSE [@ EXCEPT !.kind = k, !.kinds = rest, !.todo = todo]]
        /\ pc' = [pc EXCEPT ![p] = next]
        /\ ret' = [ret EXCEPT ![p] =
                     IF next = "ready" THEN [NoRet EXCEPT !.status = "ok", !.removed = loc[p].removed]
                     ELSE @]
        /\ UNCHANGED <<files, now, cfg, srv, prev, opsLeft, live>>

\* Cleanup: entry.Info() and the ModTime().Before(cutoff) test
CleanupInfo(p) ==
    LET path == [kind |-> loc[p].kind, name |-> Head(loc[p].todo)]
        stale == path \in DOMAIN files /\ files[path].mtime < loc[p].cutoff
        rest == Tail(loc[p].todo)
        next == IF stale THEN "cl_remove" ELSE AfterEntry(rest, loc[p].kinds)
    IN  /\ pc[p] = "cl_info"
        /\ loc' = [loc EXCEPT ![p] = IF next = "ready" THEN Returned(@)
                                       ELSE [@ EXCEPT !.path = path, !.todo = rest]]
        /\ pc' = [pc EXCEPT ![p] = next]
        /\ ret' = [ret EXCEPT ![p] =
                     IF next = "ready" THEN [NoRet EXCEPT !.status = "ok", !.removed = loc[p].removed]
                     ELSE @]
        /\ UNCHANGED <<files, now, cfg, srv, prev, opsLeft, live>>

\* a sweep that gives up at the first error
AfterFailure_Abort(todo, kinds) == "ready"

\* an error on one entry: the loop goes on with the next
AfterFailure(todo, kinds) == AfterEntry(todo, kinds)

\* Cleanup: entry.Info() returns an error; the entry is skipped
CleanupInfoFail(p) ==
    LET path == [kind |-> loc[p].kind, name |-> Head(loc[p].todo)]
        rest == Tail(loc[p].todo)
        next == AfterFailure(rest, loc[p].kinds)
        l == [loc[p] EXCEPT !.path = path, !.todo = rest, !.tried = @ \cup {path}]
    IN  /\ pc[p] = "cl_info"
        /\ loc' = [loc EXCEPT ![p] = IF next = "ready" THEN Returned(l) ELSE l]
        /\ pc' = [pc EXCEPT ![p] = next]
        /\ ret' = [ret EXCEPT ![p] =
                     IF next = "ready" THEN [NoRet EXCEPT !.status = "ok", !.removed = l.removed]
                     ELSE @]
        /\ UNCHANGED <<files, now, cfg, srv, prev, opsLeft, live>>

\* Cleanup: os.Remove returns an error; the file stays and is not counted
CleanupRemoveFail(p) ==
    LET next == AfterFailure(loc[p].todo, loc[p].kinds)
        l == [loc[p] EXCEPT !.tried = @ \cup {loc[p].path}]
    IN  /\ pc[p] = "cl_remove"
        /\ loc' = [loc EXCEPT ![p] = IF next = "ready" THEN Returned(l) ELSE l]
        /\ pc' = [pc EXCEPT ![p] = next]
        /\ ret' = [ret EXCEPT ![p] =
                     IF next = "ready" THEN [NoRet EXCEPT !.status = "ok", !.removed = l.removed]
                     ELSE @]
        /\ UNCHANGED <<files, now, cfg, srv, prev, opsLeft, live>>

\* the URI a stored file answers to
PathURI(path) == URI(path.kind, SubSeq(path.name, 1, IdLen))

\* Cleanup: os.Remove of a stale entry; removed counts the successes
CleanupRemove(p) ==
    LET path == loc[p].path
        there == path \in DOMAIN files
        n == IF there THEN loc[p].removed + 1 ELSE loc[p].removed
        next == AfterEntry(loc[p].todo, loc[p].kinds)
    IN  /\ pc[p] = "cl_remove"
        /\ files' = [q \in DOMAIN files \ {path} |-> files[q]]
        /\ loc' = [q \in DOMAIN loc |->
                     IF q = p THEN (IF next = "ready"
                                       THEN Returned([loc[q] EXCEPT !.tried = @ \cup {path}])
                                    ELSE [loc[q] EXCEPT !.removed = n,
                                                        !.tried = @ \cup {path}])
                     ELSE IF there /\ loc[q].path = path /\ pc[q] \in {"save_write", "read_file"}
                             THEN [loc[q] EXCEPT !.unlinked = TRUE]
                     ELSE loc[q]]
        /\ pc' = [pc EXCEPT ![p] = next]
        /\ ret' = [ret EXCEPT ![p] =
                     IF next = "ready" THEN [NoRet EXCEPT !.status = "ok", !.removed = n]
                     ELSE @]
        /\ live' = IF there THEN live \ {PathURI(path)} ELSE live
        /\ UNCHANGED <<now, cfg, srv, prev, opsLeft>>

\* the wall clock
Tick ==
    /\ now < MaxTime
    /\ now' = now + 1
    /\ UNCHANGED <<files, cfg, srv, pc, loc, ret, prev, opsLeft, live>>

\* ------------------------------------------------------ ingestion pipeline
\* the inputs of ingestion: raw text, and paths of files on the host's disk
PPdf == <<"d", ".", "p", "d", "f">>
PMd == <<"c", ".", "m", "d">>
PTrav == <<".", ".", "/", "d", ".", "p", "d", "f">>

\* the files os.Stat finds on the host
ExtFiles == {PPdf, PMd, PTrav}

IngestPaths == {BodyA, <<>>, PPdf, PMd, PTrav, PNul}
IngestTypes == {"cv", "jd", "", "xx"}
Surfaces == {"tool", "ingestor"}

\* the markdown a successful conversion yields, and the bytes of a file
Converted(path) == BodyB
RawBytes(path) == IF path = PMd THEN BodyA ELSE BodyWs

ConvAttempts == 2
ConvBaseDelay == 500
ReadAttempts == 3
ReadBaseDelay == 500
SaveAttempts == 3
SaveBaseDelay == 1000
MaxDelay == 30000

\* a validation that forgets the NUL byte
validatePath_NoNul(path) ==
    IF Contains(path, <<".", ".">>) THEN "path_traversal" ELSE "ok"

validatePath(path) ==
    IF Contains(path, <<".", ".">>) THEN "path_traversal"
    ELSE IF Contains(path, <<"NUL">>) THEN "null_byte"
    ELSE "ok"

ParseInput(input) ==
    IF \/ HasPrefix(input, <<"h", "t", "t", "p", ":", "/", "/">>)
       \/ HasPrefix(input, <<"h", "t", "t", "p", "s", ":", "/", "/">>) THEN "url"
    ELSE IF input \in ExtFiles THEN "file"
    ELSE "text"

\* PDFConverter.Supports
Supports(input) == ParseInput(input) # "text" /\ Ext(input) = <<".", "p", "d", "f">>

\* the last element of strings.Split(path, "/")
extractFilename(path) ==
    LET slashes == {i \in 1..Len(path) : path[i] = "/"}
    IN  IF slashes = {} THEN path ELSE SubSeq(path, Max(slashes) + 1, Len(path))

OriginalFilename(path) ==
    IF extractFilename(path) = <<>>
       THEN <<"d", "o", "c", "u", "m", "e", "n", "t", ".", "m", "d">>
    ELSE extractFilename(path)

\* error classes: the concrete error type that IsRetryable switches on
IsRetryable(cls) == cls \in {"storage", "network"}

\* a loop that retries whatever the error is
RetryVerdict_AnyError(cls, attempt, maxAttempts) ==
    IF attempt >= maxAttempts THEN "exhausted" ELSE "wait"

\* what one failed attempt makes the loop of Retry do
RetryVerdict(cls, attempt, maxAttempts) ==
    IF ~IsRetryable(cls) THEN "return"
    ELSE IF attempt >= maxAttempts THEN "exhausted"
    ELSE "wait"

\* exponential backoff before jitter, in milliseconds
calculateDelay(base, attempt) == Min({base * 2 ^ (attempt - 1), MaxDelay})

\* what the caller of the pipeline gets for an error: the tool turns a
\* DegradedError into a success with a note, the ingestor hands it on
IngestError(surface, err) ==
    IF surface = "tool" /\ err = "degraded"
       THEN [NoRet EXCEPT !.status = "ok", !.note = "degraded"]
    ELSE Failed(err)

IngestReturn(p, l, r) ==
    /\ pc' = [pc EXCEPT ![p] = "ready"]
    /\ loc' = [loc EXCEPT ![p] = Returned(l)]
    /\ ret' = [ret EXCEPT ![p] = r]

IngestGoto(p, l, next) ==
    /\ pc' = [pc EXCEPT ![p] = next]
    /\ loc' = [loc EXCEPT ![p] = l]
    /\ ret' = [ret EXCEPT ![p] = NoRet]

IngestWait(p, l, base, back) ==
    IngestGoto(p, [l EXCEPT !.resume = back,
                            !.slept = Append(@, calculateDelay(base, l.attempt))],
               "ing_sleep")

\* ---------------------------------------------------------- retry harness
\* what fn returns: nil, or an error of a concrete type
FnOutcomes == {"ok", "storage", "conversion"}

RetryPolicies == {[max |-> 1, base |-> 500], [max |-> 2, base |-> 500],
                  [max |-> 3, base |-> 1000]}

\* a select that has no case for ctx.Done(): only the timer wakes it
SelectWake_TimerOnly(woken, event) ==
    IF woken = "none" /\ event = "timer" THEN event ELSE woken

\* a goroutine parked in select is woken by the first channel that becomes
\* ready, and that case is the one that runs
SelectWake(woken, event) == IF woken = "none" THEN event ELSE woken

\* an exhausted loop that reports the first error instead of the last
RetryExhausted_FirstCause(l) ==
    [NoRet EXCEPT !.status = "error", !.err = "retryable", !.cause = 1,
                  !.attempts = l.max]

\* the RetryableError of an exhausted loop
RetryExhausted(l) ==
    [NoRet EXCEPT !.status = "error", !.err = "retryable", !.cause = l.attempt,
                  !.attempts = l.max]

\* a call of Retry(ctx, config, fn): the loop is entered with attempt = 1
RetryStart(p, policy, cancelled) ==
    /\ Begin(p)
    /\ policy.max >= 1
    /\ IngestGoto(p, [NoLoc EXCEPT !.op = "retry", !.max = policy.max,
                                   !.base = policy.base, !.attempt = 1,
                                   !.ctxDone = cancelled, !.args = <<cancelled>>], "rt_call")
    /\ UNCHANGED <<files, now, cfg, srv, live>>

\* fn(attempt) runs and the loop acts on what it returned
RetryCall(p, out) ==
    LET l == [loc[p] EXCEPT !.calls = Append(@, loc[p].attempt),
                            !.outcomes = Append(@, out),
                            !.ranAfterCancel = @ \/ loc[p].ctxDone]
        v == RetryVerdict(out, l.attempt, l.max)
    IN  /\ pc[p] = "rt_call"
        /\ IF out = "ok" THEN IngestReturn(p, l, [NoRet EXCEPT !.status = "ok"])
           ELSE IF v = "return"
              THEN IngestReturn(p, l, [NoRet EXCEPT !.status = "error", !.err = out,
                                                    !.cause = l.attempt])
           ELSE IF v = "exhausted" THEN IngestReturn(p, l, RetryExhausted(l))
           ELSE IngestGoto(p, [l EXCEPT !.slept = Append(@, calculateDelay(l.base, l.attempt)),
                                        !.woken = IF l.ctxDone THEN SelectWake("none", "ctx")
                                                  ELSE "none"],
                           "rt_sleep")
        /\ UNCHANGED <<files, now, cfg, srv, prev, opsLeft, live>>

\* the select of Retry returns: on ctx.Done() with the wrapped ctx.Err(), on
\* the timer into the next attempt
RetrySelect(p) ==
    LET l == loc[p]
    IN  /\ pc[p] = "rt_sleep"
        /\ IF l.woken = "ctx"
              THEN IngestReturn(p, l, [NoRet EXCEPT !.status = "error", !.err = "cancelled"])
           ELSE IngestGoto(p, [l EXCEPT !.attempt = @ + 1, !.woken = "none"], "rt_call")
        /\ UNCHANGED <<files, now, cfg, srv, prev, opsLeft, live>>

\* the sleeps that select on the request's context: Retry called with ctx,
\* and the conversion loop of the pipeline; the file-read and save loops are
\* given context.Background()
HonoursCtx(p) ==
    \/ pc[p] = "rt_sleep"
    \/ pc[p] = "ing_sleep" /\ loc[p].resume = "ing_conv"

\* the caller cancels the context of a request in flight
CtxCancel(p) ==
    /\ pc[p] # "ready"
    /\ loc[p].op \in {"retry", "ingest"}
    /\ ~loc[p].ctxDone
    /\ loc' = [loc EXCEPT ![p] =
                 [@ EXCEPT !.ctxDone = TRUE,
                           !.woken = IF HonoursCtx(p) THEN SelectWake(@, "ctx") ELSE @,
                           !.cancelledAsleep = pc[p] \in {"rt_sleep", "ing_sleep"}]]
    /\ UNCHANGED <<files, now, cfg, srv, pc, ret, prev, opsLeft, live>>

\* IngestDocumentTool.Call and DocumentIngestor.Ingest up to the first
\* converter call, file read or save
IngestCall(p, surface, path, typ) ==
    LET t == IF surface = "tool" /\ typ = "" THEN "cv" ELSE typ
        base == [NoLoc EXCEPT !.op = "ingest", !.surface = surface, !.input = path,
                              !.typ = typ, !.fn = OriginalFilename(path),
                              !.before = files]
        kind == ParseInput(path)
        l == [base EXCEPT !.kind = t, !.attempt = 1,
                          !.statCalls = IF kind = "url" THEN 0 ELSE 1]
    IN  /\ Begin(p)
        /\ IF surface = "tool" /\ path = <<>> THEN IngestReturn(p, base, Failed("validation"))
           ELSE IF t \notin Kinds THEN IngestReturn(p, base, Failed("validation"))
           ELSE IF validatePath(path) # "ok" THEN IngestReturn(p, base, Failed("security"))
           ELSE IF kind = "text" THEN IngestGoto(p, [l EXCEPT !.body = path], "ing_save")
           ELSE IF Supports(path) THEN IngestGoto(p, l, "ing_conv")
           ELSE IngestGoto(p, l, "ing_read")
        /\ UNCHANGED <<files, now, cfg, srv, live>>

\* one call of documentConverter.Convert inside RetryConversionOperation
IngestConvert(p, ok) ==
    LET l == [loc[p] EXCEPT !.convCalls = @ + 1,
                            !.ranAfterCancel = @ \/ loc[p].ctxDone]
        v == RetryVerdict("conversion", l.attempt, ConvAttempts)
    IN  /\ pc[p] = "ing_conv"
        /\ IF ok THEN IngestGoto(p, [l EXCEPT !.body = Converted(l.input), !.attempt = 1],
                                 "ing_save")
           ELSE IF v = "wait" THEN IngestWait(p, l, ConvBaseDelay, "ing_conv")
           ELSE IngestGoto(p, [l EXCEPT !.primaryFailed = TRUE, !.attempt = 1], "ing_read")
        /\ UNCHANGED <<files, now, cfg, srv, prev, opsLeft, live>>

\* the select of Retry returns inside the pipeline: the timer fires and the
\* next attempt starts; the conversion loop, which is given the request's
\* context, returns the cancellation instead, and the pipeline takes that as
\* a failed conversion
IngestSleep(p) ==
    LET l == [loc[p] EXCEPT !.ranAfterCancel = @ \/ loc[p].ctxDone]
    IN  /\ pc[p] = "ing_sleep"
        /\ IF l.resume = "ing_conv" /\ l.woken = "ctx"
              THEN IngestGoto(p, [loc[p] EXCEPT !.primaryFailed = TRUE, !.attempt = 1,
                                                !.resume = "none", !.woken = "none"],
                              "ing_read")
           ELSE IngestGoto(p, [l EXCEPT !.attempt = @ + 1, !.resume = "none",
                                        !.woken = "none"], l.resume)
        /\ UNCHANGED <<files, now, cfg, srv, prev, opsLeft, live>>

\* one os.ReadFile of readLocalFileWithFallback, and what
\* getMarkdownContentWithRetry makes of its result
IngestRead(p, ok) ==
    LET l == [loc[p] EXCEPT !.readCalls = @ + 1,
                            !.ranAfterCancel = @ \/ loc[p].ctxDone]
        v == RetryVerdict("storage", l.attempt, ReadAttempts)
    IN  /\ pc[p] = "ing_read"
        /\ IF ok
              THEN IF l.primaryFailed
                      THEN IngestReturn(p, [l EXCEPT !.body = RawBytes(l.input)],
                                        IngestError(l.surface, "degraded"))
                   ELSE IngestGoto(p, [l EXCEPT !.body = RawBytes(l.input), !.attempt = 1],
                                   "ing_save")
           ELSE IF v = "wait" THEN IngestWait(p, l, ReadBaseDelay, "ing_read")
           ELSE IF l.primaryFailed
              THEN IngestReturn(p, [l EXCEPT !.fallbackFailed = TRUE],
                                IngestError(l.surface, "degraded"))
           ELSE IngestReturn(p, [l EXCEPT !.fallbackFailed = TRUE], Failed("conversion"))
        /\ UNCHANGED <<files, now, cfg, srv, prev, opsLeft, live>>

\* one call of SaveDocument inside RetryStorageOperation
IngestSave(p) ==
    /\ pc[p] = "ing_save"
    /\ SaveDocumentStat(p, [loc[p] EXCEPT !.ranAfterCancel = @ \/ loc[p].ctxDone],
                        loc[p].kind, loc[p].body, loc[p].fn)
    /\ UNCHANGED <<files, now, cfg, srv, prev, opsLeft>>

\* os.WriteFile fails to open the file: SaveDocument returns a storage error,
\* which the pipeline retries
SaveOpenFail(p) ==
    LET l == loc[p]
        v == RetryVerdict("storage", l.attempt, SaveAttempts)
    IN  /\ pc[p] = "save_open"
        /\ IF l.op # "ingest" THEN IngestReturn(p, l, Failed("save document"))
           ELSE IF v = "wait" THEN IngestWait(p, l, SaveBaseDelay, "ing_save")
           ELSE IngestReturn(p, l, Failed("storage"))
        /\ UNCHANGED <<files, now, cfg, srv, prev, opsLeft, live>>

\* ------------------------------------------------------------ the server
\* ListAllDocuments for one kind: the entries of the directory with the
\* extension taken off
ListAllDocuments(fs, k) ==
    LET names == ReadDir(fs, k)
    IN  [i \in 1..Len(names) |-> SubSeq(names[i], 1, Len(names[i]) - Len(Ext(names[i])))]

StatsURI == <<"vibecheck://storage/stats">>

\* ResourceDefinitions[0], the resource of the CV directory
CVFileResource == <<"file:///cv">>

\* ListResources: a resource per cv, a resource per jd, and the statistics
\* resource when there is any document
ListResources(fs) ==
    LET cv == ListAllDocuments(fs, "cv")
        jd == ListAllDocuments(fs, "jd")
    IN  [i \in 1..Len(cv) |-> URI("cv", cv[i])] \o [i \in 1..Len(jd) |-> URI("jd", jd[i])]
        \o (IF Len(cv) > 0 \/ Len(jd) > 0 THEN <<StatsURI>> ELSE <<>>)

\* NewServer: registerResources adds what ListResources returns at that
\* moment to the MCP server; no cleanup ticker is started
NewServer(fs) ==
    [resources |-> <<CVFileResource>> \o ListResources(fs), ticker |-> FALSE, beat |-> 0]

\* a client asks for the list of resources: the MCP server answers with what
\* is registered
ResourcesList(p) ==
    /\ Begin(p)
    /\ IngestReturn(p, [NoLoc EXCEPT !.op = "list"],
                    [NoRet EXCEPT !.status = "ok", !.list = srv.resources])
    /\ UNCHANGED <<files, now, cfg, srv, live>>

\* the time after one more interval; past MaxTime the clock goes on beating
\* and the ages it measures grow no further
Later(t) == IF t < MaxTime THEN t + 1 ELSE t

\* the wall clock of the running server, one interval on: a cleanup ticker,
\* where one was started, sends on its channel and its goroutine calls
\* Cleanup(ttl)
ServerTick ==
    /\ now' = Later(now)
    /\ srv' = [srv EXCEPT !.beat = 1 - @]
    /\ IF srv.ticker
          THEN /\ loc' = [q \in Goroutines |->
                            IF q \in Sweepers /\ pc[q] = "ready"
                               THEN [NoLoc EXCEPT !.op = "cleanup",
                                                  !.cutoff = Later(now) - DefaultTTL,
                                                  !.nominal = Later(now) - DefaultTTL,
                                                  !.before = files,
                                                  !.kinds = <<"cv", "jd">>]
                            ELSE loc[q]]
               /\ pc' = [q \in Goroutines |->
                           IF q \in Sweepers /\ pc[q] = "ready" THEN "cl_readdir" ELSE pc[q]]
          ELSE UNCHANGED <<pc, loc>>
    /\ UNCHANGED <<files, cfg, ret, prev, opsLeft, live>>

\* ------------------------------------------------------ health endpoints
\* the directories of the store that may be there when a probe comes: cv
\* and jd lie under the root
StoreDirs == {d \in SUBSET {"root", "cv", "jd"} : d # {} => "root" \in d}

\* Config.LangExtractHost: unset, or the address of the collaborator
LangExtractHosts == {<<>>, <<"langextract:8000">>}

\* what GET http://<host>/health comes to within the 3 seconds
HealthAnswers == {"200", "404", "500", "refused", "timeout"}

\* IsAccessible: Stat succeeds on <root>, <root>/cv and <root>/jd
IsAccessible(dirs) == {"root", "cv", "jd"} \subseteq dirs

\* checkLangExtractConnectivity: the GET is sent whatever the host is; with
\* no host in the URL client.Do returns an error
checkLangExtractConnectivity(host, answer) ==
    IF host = <<>> THEN FALSE ELSE answer = "200"

\* GET /health/ready
ReadinessHandler(p, dirs, host, answer) ==
    LET storageAccessible == IsAccessible(dirs)
        langextractAccessible == checkLangExtractConnectivity(host, answer)
    IN  /\ Begin(p)
        /\ IngestReturn(p, [NoLoc EXCEPT !.op = "ready", !.args = <<dirs, host, answer>>],
                        [NoRet EXCEPT !.status = "ok",
                                      !.code = IF storageAccessible /\ langextractAccessible
                                                  THEN 200 ELSE 503])
        /\ UNCHANGED <<files, now, cfg, srv, live>>

\* ------------------------------------------------- interview questions
\* the count argument: absent from the JSON, or an integer; json.Unmarshal
\* leaves the field 0 when it is absent
NoCount == [given |-> FALSE, n |-> 0]

Counts == {NoCount} \cup {[given |-> TRUE, n |-> n] : n \in {-1, 0, 1, 5, 20, 21}}

Styles == {<<>>, <<"technical">>, <<"casual">>}

DefaultCount == 5

DefaultStyle == <<"comprehensive">>

validStyles == {<<"technical">>, <<"behavioral">>, <<"comprehensive">>}

\* BuildInterviewQuestionsPrompt: the text names both resources, the style
\* and the number of questions asked for
BuildInterviewQuestionsPrompt(cvURI, jdURI, style, count) == <<cvURI, jdURI, style, count>>

\* InterviewQuestionsTool.Call
InterviewCall(p, cvURI, jdURI, style0, count0) ==
    LET cv == ParseURI(cvURI)
        jd == ParseURI(jdURI)
        style == IF style0 = <<>> THEN DefaultStyle ELSE style0
        count == IF count0.n <= 0 THEN DefaultCount ELSE count0.n
        l == [NoLoc EXCEPT !.op = "interview", !.args = <<cvURI, jdURI, style0, count0>>]
        r == IF cvURI = <<>> THEN Failed("cv_uri is required")
             ELSE IF jdURI = <<>> THEN Failed("jd_uri is required")
             ELSE IF ~cv.ok \/ cv.kind # "cv" THEN Failed("invalid CV URI")
             ELSE IF ~jd.ok \/ jd.kind # "jd" THEN Failed("invalid JD URI")
             ELSE IF GetDocumentPath(files, cvURI).status = "panic" THEN [NoRet EXCEPT !.status = "panic"]
             ELSE IF ~DocumentExists(files, cvURI) THEN Failed("CV document not found")
             ELSE IF GetDocumentPath(files, jdURI).status = "panic" THEN [NoRet EXCEPT !.status = "panic"]
             ELSE IF ~DocumentExists(files, jdURI) THEN Failed("job description not found")
             ELSE IF style \notin validStyles THEN Failed("invalid style")
             ELSE [NoRet EXCEPT !.status = "ok",
                                !.prompt = BuildInterviewQuestionsPrompt(cvURI, jdURI, style, count)]
    IN  /\ Begin(p)
        /\ IngestReturn(p, l, r)
        /\ UNCHANGED <<files, now, cfg, srv, live>>

\* ------------------------------------------------------- analysis engine
\* A text is a sequence of words and runs of white space ("sp").  "go" and
\* "sql" are entries of the skills dictionary, "fun" is a word that is not,
\* "the" is a stop word of the index's analyzer and a noise word of the
\* tokenizer.
Words == <<"fun", "go", "sql", "the">>

WordSet == {Words[i] : i \in 1..Len(Words)}

SkillWords == {"go", "sql"}

StopWords == {"the"}

Texts == UNION {[1..n -> WordSet \cup {"sp"}] : n \in 0..2}

WordRank(w) == CHOOSE i \in 1..Len(Words) : Words[i] = w

IsWord(w) == w # "sp"

\* preprocessText: lower case, trim, runs of white space collapsed
preprocessText(text) == SelectSeq(text, IsWord)

Occurrences(text, w) == Cardinality({i \in 1..Len(text) : text[i] = w})

\* the score the index gives a term of a document: BM25's term-frequency
\* saturation tf(k1+1)/(tf+k1) with k1 = 1.2, in eighths
TermScoreOf(tf) == (176 * tf) \div (10 * tf + 12)

\* extractTermFrequenciesFromIndex: the terms of one document with their
\* scores; the analyzer drops the stop words
extractTermFrequenciesFromIndex(text) ==
    [w \in {text[i] : i \in 1..Len(text)} \ StopWords |-> TermScoreOf(Occurrences(text, w))]

\* the orders in which a range loop may visit the keys of a map
Orders(S) == {o \in [1..Cardinality(S) -> S] : \A i, j \in 1..Cardinality(S) : o[i] = o[j] => i = j}

Swap(seq, i, j) == [seq EXCEPT ![i] = seq[j], ![j] = seq[i]]

\* the inner loop of the sorts of the engine: for j from j0 on, exchange
\* when the score at j is greater than the score at i
RECURSIVE SortInner(_, _, _, _)
SortInner(seq, score, i, j) ==
    IF j > Len(seq) THEN seq
    ELSE SortInner(IF score[seq[j]] > score[seq[i]] THEN Swap(seq, i, j) ELSE seq,
                   score, i, j + 1)

RECURSIVE SortOuter(_, _, _)
SortOuter(seq, score, i) ==
    IF i >= Len(seq) THEN seq
    ELSE SortOuter(SortInner(seq, score, i, i + 1), score, i + 1)

\* sort by score descending, as getTopTerms, getMissingSkills and
\* getTermScores do it
SortByScore(seq, score) == SortOuter(seq, score, 1)

Limit(seq, n) == SubSeq(seq, 1, Min({n, Len(seq)}))

TopLimit == 10

MissingLimit == 20

CommonLimit == 15

\* getTopTerms over a map visited in the order visit
getTopTerms(terms, visit, limit) == Limit(SortByScore(visit, terms), limit)

\* getMissingSkills: missing is in the order the JD's map was visited
getMissingSkills(jdTerms, missing, limit) == Limit(SortByScore(missing, jdTerms), limit)

\* getTermScores over a map visited in the order visit
getTermScores(terms, visit, limit) ==
    LET sorted == Limit(SortByScore(visit, terms), limit)
    IN  [i \in 1..Len(sorted) |-> [term |-> sorted[i], score |-> terms[sorted[i]]]]

RECURSIVE SumOver(_, _)
SumOver(f, S) ==
    IF S = {} THEN 0
    ELSE LET x == CHOOSE y \in S : TRUE IN f[x] + SumOver(f, S \ {x})

\* int(x) of a quotient num/den of non-negative numbers: the fraction is cut
Truncate(num, den) == num \div den

Clamp(v, lo, hi) == IF v < lo THEN lo ELSE IF v > hi THEN hi ELSE v

\* the percentage calculateMatchMetrics makes of the two sums
MatchPercentage(matchScore, jdTotalWeight) ==
    IF jdTotalWeight > 0 THEN Clamp(Truncate(100 * matchScore, jdTotalWeight), 0, 100) ELSE 0

\* calculateMatchMetrics; visitJD, visitTop and visitCommon are the orders of
\* its three range loops over maps
calculateMatchMetrics(cvTerms, jdTerms, visitJD, visitTop, visitCommon) ==
    LET common == DOMAIN jdTerms \cap DOMAIN cvTerms
        commonTerms == [w \in common |-> Min({cvTerms[w], jdTerms[w]})]
        InCV(w) == w \in DOMAIN cvTerms
        NotInCV(w) == w \notin DOMAIN cvTerms
        missingTerms == SelectSeq(visitJD, NotInCV)
        jdTotalWeight == SumOver(jdTerms, DOMAIN jdTerms)
        matchScore == SumOver(commonTerms, common)
    IN  [match_percentage |-> MatchPercentage(matchScore, jdTotalWeight),
         top_skills |-> getTopTerms(commonTerms, visitTop, TopLimit),
         missing_skills |-> getMissingSkills(jdTerms, missingTerms, MissingLimit),
         common_terms |-> getTermScores(commonTerms, visitCommon, CommonLimit),
         matchScore |-> matchScore, jdTotalWeight |-> jdTotalWeight]

\* calculateConfidence, in tenths: 0.5 and 0.1 for each occurrence, at most 1
Confidence(text, w) == Min({5 + Occurrences(text, w), 10})

\* ExtractSkills: the words of the dictionary in the text, once each, by
\* confidence descending and then by name
ExtractSkills(text) ==
    LET found == {w \in SkillWords : Occurrences(text, w) > 0}
        Before(a, b) == \/ Confidence(text, a) > Confidence(text, b)
                        \/ Confidence(text, a) = Confidence(text, b) /\ WordRank(a) < WordRank(b)
    IN  [i \in 1..Cardinality(found) |->
            CHOOSE w \in found : Cardinality({v \in found : Before(v, w)}) = i - 1]

\* MatchSkills: the skills of the JD that the CV has
MatchSkills(cvSkills, jdSkills) ==
    LET InCV(w) == \E i \in 1..Len(cvSkills) : cvSkills[i] = w
    IN  SelectSeq(jdSkills, InCV)

\* CalculateSkillCoverage, in hundredths
CalculateSkillCoverage(cvSkills, jdSkills) ==
    IF Len(jdSkills) = 0 THEN 0
    ELSE (100 * Len(MatchSkills(cvSkills, jdSkills))) \div Len(jdSkills)

\* CalculateExperienceMatch, in hundredths: no text here names years, so
\* every matched skill counts 0.5
CalculateExperienceMatch(cvSkills, jdSkills) ==
    IF Len(jdSkills) = 0 \/ Len(MatchSkills(cvSkills, jdSkills)) = 0 THEN 0 ELSE 50

\* scoring weights, in hundredths
NewDefaultWeights == <<40, 30, 20, 10>>

Normalize(weights) ==
    IF weights[1] + weights[2] + weights[3] + weights[4] = 0 THEN NewDefaultWeights ELSE weights

\* the score CalculateWeightedScore makes of the weighted sum num/den
WeightedTotal(num, den) == Clamp(Truncate(num, den), 0, 100)

\* CalculateWeightedScore: inputs and weights in hundredths; total * 100 is
\* the sum of input times weight over the sum of the weights
CalculateWeightedScore(inputs, weights) ==
    LET normalized == Normalize(weights)
        sum == normalized[1] + normalized[2] + normalized[3] + normalized[4]
        clamped == [i \in 1..4 |-> Clamp(inputs[i], 0, 100)]
        num == clamped[1] * normalized[1] + clamped[2] * normalized[2]
               + clamped[3] * normalized[3] + clamped[4] * normalized[4]
    IN  [score |-> WeightedTotal(num, sum), breakdown |-> clamped, num |-> num, den |-> sum]

\* AnalysisEngine.Analyze
Analyze(p, cvContent, jdContent) ==
    LET cvClean == preprocessText(cvContent)
        jdClean == preprocessText(jdContent)
        cvTerms == extractTermFrequenciesFromIndex(cvClean)
        jdTerms == extractTermFrequenciesFromIndex(jdClean)
        cvSkills == ExtractSkills(cvClean)
        jdSkills == ExtractSkills(jdClean)
        skillCoverage == CalculateSkillCoverage(cvSkills, jdSkills)
        experienceMatch == CalculateExperienceMatch(cvSkills, jdSkills)
        l == [NoLoc EXCEPT !.op = "analyze", !.args = <<cvContent, jdContent>>]
    IN  /\ Begin(p)
        /\ UNCHANGED <<files, now, cfg, srv, live>>
        /\ IF cvClean = <<>> \/ jdClean = <<>>
              THEN IngestReturn(p, l, Failed("content must not be empty"))
              ELSE \E visitJD \in Orders(DOMAIN jdTerms),
                      visitTop \in Orders(DOMAIN jdTerms \cap DOMAIN cvTerms),
                      visitCommon \in Orders(DOMAIN jdTerms \cap DOMAIN cvTerms) :
                      LET m == calculateMatchMetrics(cvTerms, jdTerms, visitJD, visitTop,
                                                     visitCommon)
                          w == CalculateWeightedScore(
                                   <<skillCoverage, experienceMatch,
                                     m.match_percentage, m.match_percentage>>,
                                   NewDefaultWeights)
                      IN  IngestReturn(p, l,
                              [NoRet EXCEPT !.status = "ok",
                                            !.result = m
                                                @@ [weighted_score |-> w.score,
                                                    skill_coverage |-> skillCoverage,
                                                    experience_match |-> experienceMatch,
                                                    present_skills |-> cvSkills]])

\* a call of CalculateWeightedScore
WeightedScoreCall(p, inputs, weights) ==
    /\ Begin(p)
    /\ IngestReturn(p, [NoLoc EXCEPT !.op = "score", !.args = <<inputs, weights>>],
                    [NoRet EXCEPT !.status = "ok",
                                  !.result = CalculateWeightedScore(inputs, weights)])
    /\ UNCHANGED <<files, now, cfg, srv, live>>

\* ------------------------------------------------------------ URI grammar
\* a call of ParseURI by a client of the storage package
ParseURICall(p, uri) ==
    LET pr == ParseURI(uri)
    IN  /\ Begin(p)
        /\ IngestReturn(p, [NoLoc EXCEPT !.op = "parseuri", !.args = <<uri>>],
                        IF pr.ok THEN [NoRet EXCEPT !.status = "ok",
                                                    !.result = [kind |-> pr.kind, id |-> pr.id]]
                        ELSE Failed("parse URI"))
        /\ UNCHANGED <<files, now, cfg, srv, live>>

\* ------------------------------------------------------- specifications
\* the server after NewServer over a storage directory that holds fs: the
\* resources are registered, no request is in flight
InitFrom(c, fs) ==
    /\ files = fs
    /\ now = 0
    /\ cfg = c
    /\ srv = NewServer(fs)
    /\ pc = [p \in Goroutines |-> "ready"]
    /\ loc = [p \in Goroutines |-> NoLoc]
    /\ ret = [p \in Goroutines |-> NoRet]
    /\ prev = [p \in Goroutines |-> NoPrev]
    /\ opsLeft = c.ops
    /\ live = {}

\* the server started on a new storage directory: NewStorageManager has made
\* both directories and they are empty
InitWith(c) == InitFrom(c, EmptyStore)

URIs(c) == {URI(k, GenerateID(b)) : k \in c.kinds, b \in c.bodies}

StoreNext ==
    \/ \E p \in cfg.procs, k \in cfg.kinds, b \in cfg.bodies, fn \in cfg.fnames :
            SaveStat(p, k, b, fn)
    \/ \E p \in cfg.procs : SaveOpen(p)
    \/ \E p \in cfg.procs : SaveWrite(p)
    \/ \E p \in cfg.procs, u \in URIs(cfg), v \in cfg.views : ReadResolve(p, u, v)
    \/ \E p \in cfg.procs : ReadFile(p)
    \/ \E p \in cfg.procs, ttl \in cfg.ttls : CleanupStart(p, ttl)
    \/ \E p \in cfg.procs : CleanupReadDir(p)
    \/ \E p \in cfg.procs : CleanupInfo(p)
    \/ \E p \in cfg.procs : CleanupRemove(p)
    \/ Tick

\* requests served in parallel, the sweep among them
ConcCfg == [procs |-> Workers, ops |-> MaxOps, kinds |-> {"cv"}, bodies |-> {BodyA},
            fnames |-> {FnAMd, FnBbMd, FnBTxt}, ttls |-> {1}, views |-> {"raw"}]

Init == InitWith(ConcCfg)

Next == StoreNext

Spec == Init /\ [][Next]_vars

\* one request at a time: the store's calls in sequence
SeqCfg == [procs |-> {"w1"}, ops |-> MaxOps, kinds |-> Kinds,
           bodies |-> {BodyA, BodyWs},
           fnames |-> {FnAMd, FnBTxt, FnNoExt}, ttls |-> {0, 1},
           views |-> {"raw"}]

InitSeq == InitWith(SeqCfg)

NextSeq == StoreNext

SpecSeq == InitSeq /\ [][NextSeq]_vars

\* one document saved and read back through each of the three readers
StripCfg == [procs |-> {"w1"}, ops |-> 2, kinds |-> Kinds,
             bodies |-> {BodyA, BodyWs, BodyDash, <<>>},
             fnames |-> {FnAMd, FnBbMd, FnBTxt, FnNoExt}, ttls |-> {0},
             views |-> {"raw", "analysis", "resource"}]

InitStrip == InitWith(StripCfg)

NextStrip ==
    \/ \E p \in cfg.procs, k \in cfg.kinds, b \in cfg.bodies, fn \in cfg.fnames :
            SaveStat(p, k, b, fn)
    \/ \E p \in cfg.procs : SaveOpen(p)
    \/ \E p \in cfg.procs : SaveWrite(p)
    \/ \E p \in cfg.procs, u \in URIs(cfg), v \in cfg.views : ReadResolve(p, u, v)
    \/ \E p \in cfg.procs : ReadFile(p)
    \/ Tick

SpecStrip == InitStrip /\ [][NextStrip]_vars

\* the ingestion pipeline, one request at a time
IngestCfg == [procs |-> {"w1"}, ops |-> 2, kinds |-> Kinds, bodies |-> {BodyA},
              fnames |-> {FnAMd}, ttls |-> {0}, views |-> {"raw"}]

InitIngest == InitWith(IngestCfg)

NextIngest ==
    \/ \E p \in cfg.procs, sf \in Surfaces, path \in IngestPaths, t \in IngestTypes :
           IngestCall(p, sf, path, t)
    \/ \E p \in cfg.procs, ok \in BOOLEAN : IngestConvert(p, ok)
    \/ \E p \in cfg.procs : IngestSleep(p)
    \/ \E p \in cfg.procs, ok \in BOOLEAN : IngestRead(p, ok)
    \/ \E p \in cfg.procs : IngestSave(p)
    \/ \E p \in cfg.procs : SaveOpen(p)
    \/ \E p \in cfg.procs : SaveOpenFail(p)
    \/ \E p \in cfg.procs : SaveWrite(p)
    \/ \E p \in cfg.procs : CtxCancel(p)

SpecIngest == InitIngest /\ [][NextIngest]_vars

\* the retry harness on its own, with a caller that may cancel
RetryCfg == [procs |-> {"w1"}, ops |-> 2, kinds |-> Kinds, bodies |-> {BodyA},
             fnames |-> {FnAMd}, ttls |-> {0}, views |-> {"raw"}]

InitRetry == InitWith(RetryCfg)

NextRetry ==
    \/ \E p \in cfg.procs, policy \in RetryPolicies, cancelled \in BOOLEAN :
           RetryStart(p, policy, cancelled)
    \/ \E p \in cfg.procs, out \in FnOutcomes : RetryCall(p, out)
    \/ \E p \in cfg.procs : RetrySelect(p)
    \/ \E p \in cfg.procs : CtxCancel(p)

SpecRetry == InitRetry /\ [][NextRetry]_vars

\* sweeps over a store of up to two files, with entries that cannot be
\* inspected or removed
SweepCfg == [procs |-> {"w1"}, ops |-> 3, kinds |-> Kinds, bodies |-> {BodyA, BodyB},
             fnames |-> {FnAMd}, ttls |-> {0, 1}, views |-> {"raw"}]

InitSweep == InitWith(SweepCfg)

NextSweep ==
    \/ \E p \in cfg.procs, k \in cfg.kinds, b \in cfg.bodies, fn \in cfg.fnames :
           SaveStat(p, k, b, fn)
    \/ \E p \in cfg.procs : SaveOpen(p)
    \/ \E p \in cfg.procs : SaveWrite(p)
    \/ \E p \in cfg.procs, ttl \in cfg.ttls : CleanupStart(p, ttl)
    \/ \E p \in cfg.procs : CleanupReadDir(p)
    \/ \E p \in cfg.procs : CleanupInfo(p)
    \/ \E p \in cfg.procs : CleanupInfoFail(p)
    \/ \E p \in cfg.procs : CleanupRemove(p)
    \/ \E p \in cfg.procs : CleanupRemoveFail(p)
    \/ Tick

SpecSweep == InitSweep /\ [][NextSweep]_vars

\* look-ups by URIs of every shape: the ID of a stored document, a proper
\* prefix of one, an ID longer than a stored name, and strings that are no URI
LookupCfg == [procs |-> {"w1"}, ops |-> MaxOps, kinds |-> {"cv"}, bodies |-> {BodyA, BodyB},
              fnames |-> {FnAMd, FnBTxt}, ttls |-> {0}, views |-> {"raw"}]

ProperPrefixes(id) == {SubSeq(id, 1, n) : n \in 1..(Len(id) - 1)}

LongID(id) == id \o <<".", "m", "d", "x">>

LookupURIs(c) ==
    URIs(c)
    \cup {URI(k, pre) : k \in Kinds, pre \in UNION {ProperPrefixes(GenerateID(b)) : b \in c.bodies}}
    \cup {URI(k, LongID(GenerateID(b))) : k \in c.kinds, b \in c.bodies}
    \cup {<<>>, <<"c", "v", ":", "/", "/">>, <<"x", "y", ":", "/", "/", "0">>}

InitLookup == InitWith(LookupCfg)

NextLookup ==
    \/ \E p \in cfg.procs, k \in cfg.kinds, b \in cfg.bodies, fn \in cfg.fnames :
           SaveStat(p, k, b, fn)
    \/ \E p \in cfg.procs : SaveOpen(p)
    \/ \E p \in cfg.procs : SaveWrite(p)
    \/ \E p \in cfg.procs, u \in LookupURIs(cfg), v \in cfg.views : ReadResolve(p, u, v)
    \/ \E p \in cfg.procs : ReadFile(p)
    \/ \E p \in cfg.procs, u \in LookupURIs(cfg) : GetPath(p, u)
    \/ \E p \in cfg.procs, u \in LookupURIs(cfg) : ExistsResolve(p, u)
    \/ \E p \in cfg.procs : ExistsStat(p)

SpecLookup == InitLookup /\ [][NextLookup]_vars

\* the running server: clients ingest, list the resources and call the
\* cleanup tool, and the wall clock goes on
ServerCfg == [procs |-> {"w1"}, ops |-> MaxOps, kinds |-> {"cv"}, bodies |-> {BodyA, BodyB},
              fnames |-> {FnAMd}, ttls |-> {0}, views |-> {"raw"}]

\* what the storage directory may hold when the server starts
StartStores ==
    {EmptyStore,
     [q \in {SavePath("cv", BodyB, FnAMd)} |->
         [data |-> Frontmatter(GenerateID(BodyB), FnAMd, TimeStr(0), "cv") \o BodyB,
          mtime |-> 0]]}

InitServer == \E fs \in StartStores : InitFrom(ServerCfg, fs)

SweeperStep(p) ==
    CleanupReadDir(p) \/ CleanupInfo(p) \/ CleanupRemove(p)

NextServer ==
    \/ \E p \in cfg.procs, k \in cfg.kinds, b \in cfg.bodies, fn \in cfg.fnames :
           SaveStat(p, k, b, fn)
    \/ \E p \in cfg.procs : SaveOpen(p)
    \/ \E p \in cfg.procs : SaveWrite(p)
    \/ \E p \in cfg.procs : ResourcesList(p)
    \/ \E p \in cfg.procs, ttl \in cfg.ttls : CleanupStart(p, ttl)
    \/ \E p \in cfg.procs \cup Sweepers : CleanupReadDir(p)
    \/ \E p \in cfg.procs \cup Sweepers : CleanupInfo(p)
    \/ \E p \in cfg.procs \cup Sweepers : CleanupRemove(p)
    \/ ServerTick

\* the clock goes on and a goroutine that can run does run; no client is
\* bound to send a request
FairServer ==
    /\ WF_vars(ServerTick)
    /\ WF_vars(\E p \in Sweepers : SweeperStep(p))

SpecServer == InitServer /\ [][NextServer]_vars /\ FairServer

\* readiness probes against every state of the store's directories and of
\* the collaborator
HealthCfg == [procs |-> {"w1"}, ops |-> MaxOps, kinds |-> Kinds, bodies |-> {BodyA},
              fnames |-> {FnAMd}, ttls |-> {0}, views |-> {"raw"}]

InitHealth == InitWith(HealthCfg)

NextHealth ==
    \E p \in cfg.procs, dirs \in StoreDirs, host \in LangExtractHosts, answer \in HealthAnswers :
        ReadinessHandler(p, dirs, host, answer)

SpecHealth == InitHealth /\ [][NextHealth]_vars

\* a CV and a job description are stored, and interview questions are asked
\* for with every count and style
InterviewCfg == [procs |-> {"w1"}, ops |-> MaxOps, kinds |-> Kinds, bodies |-> {BodyA},
                 fnames |-> {FnAMd}, ttls |-> {0}, views |-> {"raw"}]

InterviewURIs(c) == URIs(c) \cup {<<>>, <<"c", "v">>}

InitInterview == InitWith(InterviewCfg)

NextInterview ==
    \/ \E p \in cfg.procs, k \in cfg.kinds, b \in cfg.bodies, fn \in cfg.fnames :
           SaveStat(p, k, b, fn)
    \/ \E p \in cfg.procs : SaveOpen(p)
    \/ \E p \in cfg.procs : SaveWrite(p)
    \/ \E p \in cfg.procs, cv \in InterviewURIs(cfg), jd \in InterviewURIs(cfg),
          style \in Styles, count \in Counts :
           InterviewCall(p, cv, jd, style, count)

SpecInterview == InitInterview /\ [][NextInterview]_vars

\* analyses of every pair of texts, and weighted scores of every input
AnalysisCfg == [procs |-> {"w1"}, ops |-> 1, kinds |-> Kinds, bodies |-> {BodyA},
                fnames |-> {FnAMd}, ttls |-> {0}, views |-> {"raw"}]

ScoreInputs == {-50, 0, 64, 100, 150}

ScoreWeights == {NewDefaultWeights, <<0, 0, 0, 0>>, <<1, 1, 1, 0>>}

InitAnalysis == InitWith(AnalysisCfg)

NextAnalysis ==
    \/ \E p \in cfg.procs, cv \in Texts, jd \in Texts : Analyze(p, cv, jd)
    \/ \E p \in cfg.procs, inputs \in [1..4 -> ScoreInputs], weights \in ScoreWeights :
           WeightedScoreCall(p, inputs, weights)

SpecAnalysis == InitAnalysis /\ [][NextAnalysis]_vars

\* ParseURI on strings with and without a scheme, with and without an ID
URICfg == [procs |-> {"w1"}, ops |-> MaxOps, kinds |-> Kinds, bodies |-> {BodyA},
           fnames |-> {FnAMd}, ttls |-> {0}, views |-> {"raw"}]

URIHeads == {<<>>, <<"c", "v", ":", "/", "/">>, <<"j", "d", ":", "/", "/">>,
             <<"x", "x", ":", "/", "/">>, <<"c", "v", ":", "/">>, <<"j", "d", ":">>,
             <<"0", "c", "v", ":", "/", "/">>, <<"c", "v", "/", "/", ":">>}

URITails == {<<>>, <<"0">>, <<"0", "1">>, <<"/">>, <<"j", "d", ":", "/", "/", "0">>}

URIStrings == {h \o t : h \in URIHeads, t \in URITails}

InitURI == InitWith(URICfg)

NextURI == \E p \in cfg.procs, uri \in URIStrings : ParseURICall(p, uri)

SpecURI == InitURI /\ [][NextURI]_vars

\* saves, saves of content that is already stored, and sweeps, one call at
\* a time, with the time of each return kept
RetainCfg == [procs |-> {"w1"}, ops |-> MaxOps, kinds |-> {"cv"}, bodies |-> {BodyA, BodyB},
              fnames |-> {FnAMd}, ttls |-> {1}, views |-> {"raw"}, stamps |-> TRUE]

InitRetain == InitWith(RetainCfg)

NextRetain ==
    \/ \E p \in cfg.procs, k \in cfg.kinds, b \in cfg.bodies, fn \in cfg.fnames :
           SaveStat(p, k, b, fn)
    \/ \E p \in cfg.procs : SaveOpen(p)
    \/ \E p \in cfg.procs : SaveWrite(p)
    \/ \E p \in cfg.procs, ttl \in cfg.ttls : CleanupStart(p, ttl)
    \/ \E p \in cfg.procs : CleanupReadDir(p)
    \/ \E p \in cfg.procs : CleanupInfo(p)
    \/ \E p \in cfg.procs : CleanupRemove(p)
    \/ Tick

SpecRetain == InitRetain /\ [][NextRetain]_vars

\* ------------------------------------------------------------- the claims
BodyOfURI(uri) ==
    LET i == CHOOSE j \in 1..Len(BodyList) : GenerateID(BodyList[j]) = ParseURI(uri).id
    IN  BodyList[i]

\* the files of one kind that hold the content b
FilesOf(fs, k, b) == {q \in DOMAIN fs : q.kind = k /\ HasPrefix(q.name, GenerateID(b))}

SavedOK(p) == pc[p] = "ready" /\ loc[p].op = "save" /\ ret[p].status = "ok"

SavedTwice(p) ==
    /\ SavedOK(p)
    /\ prev[p].op = "save" /\ prev[p].status = "ok"
    /\ prev[p].kind = loc[p].kind /\ prev[p].body = loc[p].body

\* C1: Save(k, b, fn1) followed by Save(k, b, fn2), for any two filenames,
\* returns the same URI twice and leaves exactly one file for b under the kind
C1_SaveTwiceOneFile ==
    \A p \in Workers :
        SavedTwice(p) =>
            /\ ret[p].uri = prev[p].uri
            /\ Cardinality(FilesOf(files, loc[p].kind, loc[p].body)) = 1

ReadOK(p) == pc[p] = "ready" /\ loc[p].op = "read" /\ ret[p].status = "ok"

IsFramed(data, uri) ==
    \E fn \in cfg.fnames, t \in 0..MaxTime :
        data = Frontmatter(ParseURI(uri).id, fn, TimeStr(t), ParseURI(uri).kind) \o BodyOfURI(uri)

\* C2: Read(uri) of a saved document is the frontmatter followed by the body,
\* and both strippers (analysis path, MCP resource read) give back exactly
\* the body that was saved
C2_StripYieldsBody ==
    \A p \in Workers :
        ReadOK(p) =>
            IF loc[p].view = "raw" THEN IsFramed(ret[p].data, loc[p].uri)
            ELSE ret[p].data = BodyOfURI(loc[p].uri)

\* C3: a URI that Save returned resolves (Exists is true, Read succeeds) in
\* every later state, whatever saves, reads and listings follow, until a
\* sweep removes the document's file
C3_ReturnedURIResolves ==
    \A u \in live :
        DocumentExists(files, u) /\ ReadDocument(files, u).status = "ok"

\* a returned URI is read back after a later save put a second file in the
\* store
C3_Witness ==
    \E p \in Workers :
        /\ ReadOK(p) /\ loc[p].uri \in live
        /\ Cardinality(DOMAIN files) >= 2

\* C4: two overlapping Saves of the same kind and body return the same URI
\* and leave one file for the content, holding the whole body
C4_ConcurrentSavesConverge ==
    \A p, q \in Workers :
        (/\ p # q /\ SavedOK(p) /\ SavedOK(q)
         /\ loc[p].overlap /\ loc[q].overlap
         /\ loc[p].kind = loc[q].kind /\ loc[p].body = loc[q].body
         /\ ret[p].uri \in live) =>
            /\ ret[p].uri = ret[q].uri
            /\ Cardinality(FilesOf(files, loc[p].kind, loc[p].body)) = 1
            /\ \A f \in FilesOf(files, loc[p].kind, loc[p].body) :
                   IsFramed(files[f].data, ret[p].uri)

\* C5: a Read whose file a sweep removes after the path was resolved returns
\* the whole file or the "document not found" error of the path lookup
C5_ReadAfterSweepNotFound ==
    \A p \in Workers :
        (pc[p] = "ready" /\ loc[p].op = "read" /\ loc[p].unlinked) =>
            \/ ret[p].status = "ok" /\ IsFramed(ret[p].data, loc[p].uri)
            \/ ret[p].status = "error" /\ ret[p].err = "find document"

\* a file no writer holds open
Settled(q) ==
    \A p \in Workers : ~(pc[p] = "save_write" /\ loc[p].path = q /\ ~loc[p].unlinked)

\* C6: the bytes of a stored file never change while the file exists
C6_NeverEditedInPlace ==
    [][\A q \in DOMAIN files \cap DOMAIN files' :
           Settled(q) => files'[q].data = files[q].data]_vars

IngestDone(p) == pc[p] = "ready" /\ loc[p].op = "ingest"

\* the Degraded outcome: the converter failed and the fallback read succeeded
DegradedOutcome(p) ==
    IngestDone(p) /\ loc[p].primaryFailed /\ ~loc[p].fallbackFailed

\* C7: an ingestion that ends Degraded has stored the document and answers
\* with a URI that exists and reads; the tool's response is a success
C7_DegradedStoresDocument ==
    \A p \in Workers :
        DegradedOutcome(p) =>
            /\ loc[p].surface = "tool" => ret[p].status = "ok"
            /\ ret[p].uri # <<>>
            /\ DocumentExists(files, ret[p].uri)
            /\ ReadDocument(files, ret[p].uri).status = "ok"

\* the converter and the fallback read have both failed
TotalFailure(p) ==
    IngestDone(p) /\ loc[p].primaryFailed /\ loc[p].fallbackFailed

\* C8: when the conversion and the fallback read both fail the pipeline
\* returns a conversion error, the tool reports an error, and the store holds
\* what it held before the request
C8_TotalFailureIsConversionError ==
    \A p \in Workers :
        TotalFailure(p) =>
            /\ ret[p].status = "error"
            /\ ret[p].err = "conversion"
            /\ files = loc[p].before

\* C9: a fallback read that follows failed conversions follows exactly two
\* converter calls, the second after a backoff of the 500 ms base
C9_ConverterInvokedTwice ==
    \A p \in Workers :
        (loc[p].op = "ingest" /\ loc[p].primaryFailed) =>
            /\ loc[p].convCalls = ConvAttempts
            /\ Len(loc[p].slept) >= 1 /\ loc[p].slept[1] = ConvBaseDelay

BadPath(path) == Contains(path, <<".", ".">>) \/ Contains(path, <<"NUL">>)

\* nothing of the host or the store was touched and the caller got a
\* security error
RejectedUntouched(p) ==
    /\ pc[p] = "ready"
    /\ ret[p].status = "error" /\ ret[p].err = "security"
    /\ loc[p].convCalls = 0 /\ loc[p].readCalls = 0 /\ loc[p].statCalls = 0
    /\ files = loc[p].before

\* C10 as stated: every ingestion of a path with ".." or a NUL byte ends in a
\* security error with no converter call, no file access and the store
\* unchanged
C10_BadPathSecurityError ==
    \A p \in Workers :
        (loc[p].op = "ingest" /\ BadPath(loc[p].input)) => RejectedUntouched(p)

\* the document type as the surface takes it: the tool reads "" as cv
EffectiveType(p) ==
    IF loc[p].surface = "tool" /\ loc[p].typ = "" THEN "cv" ELSE loc[p].typ

\* C10 amended: with a valid document type, every ingestion of a path with
\* ".." or a NUL byte ends in a security error with no converter call, no
\* file access and the store unchanged
C10_BadPathValidType ==
    \A p \in Workers :
        (loc[p].op = "ingest" /\ BadPath(loc[p].input) /\ EffectiveType(p) \in Kinds) =>
            RejectedUntouched(p)

\* a NUL path is rejected after an earlier request stored a document
C10_Witness ==
    \E p \in Workers :
        /\ loc[p].op = "ingest" /\ loc[p].input = PNul /\ EffectiveType(p) \in Kinds
        /\ RejectedUntouched(p)
        /\ DOMAIN files # {}

RetryRun(p) == loc[p].op = "retry"

\* the error types the harness is to retry
Transient == {"storage", "network"}

LastOutcome(p) == loc[p].outcomes[Len(loc[p].outcomes)]

\* C11: Retry calls fn with attempt 1, 2, 3, ... without gaps and at most
\* max_attempts times; a call that returns success or a non-transient error
\* is the last one, and Retry returns at once (nil, or that error) without a
\* sleep
C11_RetryAttemptsInOrder ==
    \A p \in Workers :
        RetryRun(p) =>
            LET l == loc[p]
                n == Len(l.calls)
            IN  /\ l.calls = [i \in 1..n |-> i]
                /\ n <= l.max
                /\ \A i \in 1..(n - 1) : l.outcomes[i] \in Transient
                /\ (n > 0 /\ LastOutcome(p) \notin Transient) =>
                       /\ pc[p] = "ready"
                       /\ Len(l.slept) = n - 1
                       /\ IF LastOutcome(p) = "ok" THEN ret[p].status = "ok"
                          ELSE /\ ret[p].status = "error"
                               /\ ret[p].err = LastOutcome(p)
                               /\ ret[p].cause = n

\* a third attempt returned a non-transient error
C11_Witness ==
    \E p \in Workers :
        /\ RetryRun(p) /\ pc[p] = "ready"
        /\ loc[p].calls = <<1, 2, 3>> /\ LastOutcome(p) = "conversion"
        /\ ret[p].err = "conversion"

\* every attempt of the policy was made and failed with a transient error
Exhausted(p) ==
    /\ RetryRun(p) /\ pc[p] = "ready"
    /\ Len(loc[p].outcomes) = loc[p].max
    /\ \A i \in 1..Len(loc[p].outcomes) : loc[p].outcomes[i] \in Transient

\* C12: when the attempts are exhausted by transient errors Retry returns a
\* RetriedFailure with the last error as cause and the number of calls of fn
\* as attempts, and no sleep follows the last call
C12_ExhaustedRetriedFailure ==
    \A p \in Workers :
        Exhausted(p) =>
            /\ ret[p].status = "error" /\ ret[p].err = "retryable"
            /\ ret[p].cause = Len(loc[p].calls)
            /\ ret[p].attempts = Len(loc[p].calls)
            /\ Len(loc[p].slept) = Len(loc[p].calls) - 1

\* three transient failures under a policy of three attempts
C12_Witness ==
    \E p \in Workers : Exhausted(p) /\ loc[p].max = 3 /\ ret[p].attempts = 3

\* C13: a cancellation that arrives while Retry sleeps between two attempts
\* wakes the sleep, fn is not called again, and Retry returns an error that
\* wraps the context's
C13_CancelledSleepReturns ==
    \A p \in Workers :
        (RetryRun(p) /\ loc[p].cancelledAsleep) =>
            /\ ~loc[p].ranAfterCancel
            /\ Len(loc[p].calls) < loc[p].max
            /\ \/ pc[p] = "rt_sleep" /\ loc[p].woken = "ctx"
               \/ pc[p] = "ready" /\ ret[p].status = "error" /\ ret[p].err = "cancelled"

\* Retry has returned the cancellation after one failed attempt of three
C13_Witness ==
    \E p \in Workers :
        /\ RetryRun(p) /\ loc[p].cancelledAsleep /\ pc[p] = "ready"
        /\ ret[p].err = "cancelled" /\ loc[p].calls = <<1>> /\ loc[p].max = 3

\* C14: once the context of an ingest is cancelled during a backoff of one
\* of its retry loops, the loop neither sleeps the backoff out nor starts
\* another attempt, and the request ends with the cancellation error
C14_CancelReachesEveryLoop ==
    \A p \in Workers :
        (loc[p].op = "ingest" /\ loc[p].cancelledAsleep) =>
            /\ ~loc[p].ranAfterCancel
            /\ pc[p] = "ready" => (ret[p].status = "error" /\ ret[p].err = "cancelled")

\* C15: a file leaves the store only by a sweep, and only when its
\* last-modified time is strictly before the sweep's now - ttl
C15_SweepRemovesOnlyStale ==
    [][\A q \in DOMAIN files \ DOMAIN files' :
           \E p \in Workers : /\ pc[p] = "cl_remove" /\ loc[p].path = q
                              /\ files[q].mtime < loc[p].nominal]_vars

\* the step with which a sweep returns
SweepReturns(p) == loc[p].op = "cleanup" /\ pc[p] # "ready" /\ pc'[p] = "ready"

\* the entry a sweep is at
CurrentEntry(p) ==
    IF pc[p] = "cl_remove" THEN {loc[p].path}
    ELSE IF pc[p] = "cl_info" THEN {[kind |-> loc[p].kind, name |-> Head(loc[p].todo)]}
    ELSE {}

StaleAtStart(p) ==
    {q \in DOMAIN loc[p].before : loc[p].before[q].mtime < loc[p].cutoff}

\* C16: a sweep returns only after every file that was stale when it began
\* has had its removal attempted, whatever failed on the way, and the count
\* it returns is the number of files it removed
C16_SweepSurvivesFailures ==
    [][\A p \in Workers :
           SweepReturns(p) =>
               /\ StaleAtStart(p) \subseteq loc[p].tried \cup CurrentEntry(p)
               /\ ret'[p].removed = Cardinality(DOMAIN loc[p].before \ DOMAIN files')]_vars

\* a sweep that could not remove one stale file has removed another
C16_Witness ==
    \E p \in Workers :
        /\ loc[p].op = "cleanup" /\ pc[p] # "ready" /\ loc[p].removed = 1
        /\ \E q \in loc[p].tried : q \in DOMAIN files /\ files[q].mtime < loc[p].cutoff

\* the look-ups that ended by finding a document, and what they found
Found(p) ==
    /\ pc[p] = "ready"
    /\ \/ loc[p].op = "read" /\ ret[p].status = "ok"
       \/ loc[p].op = "getpath" /\ ret[p].status = "ok"
       \/ loc[p].op = "exists" /\ ret[p].status = "ok" /\ ret[p].exists

Basename(name) == SubSeq(name, 1, Len(name) - Len(Ext(name)))

\* C18: Read, GetPath and Exists find a document only when the store holds
\* a file of the URI's kind whose name without its extension is the URI's
\* ID; an ID that is a proper prefix of a stored ID finds nothing.
C18_ExactIdMatch ==
    \A p \in Workers :
        Found(p) =>
            \E q \in DOMAIN files :
                /\ q.kind = ParseURI(loc[p].uri).kind
                /\ Basename(q.name) = ParseURI(loc[p].uri).id

\* C19: every call of Exists ends by returning a boolean; none ends in a
\* panic, whatever the URI and whatever the directories hold.
C19_ExistsNeverPanics ==
    \A p \in Workers :
        (loc[p].op = "exists" /\ pc[p] = "ready") => ret[p].status = "ok"

\* the entries of a resource list that stand for documents
DocEntries(list) == {i \in 1..Len(list) : ParseURI(list[i]).ok}

\* a document of the store whose age is over the default TTL
Stale(q) == q \in DOMAIN files /\ files[q].mtime + DefaultTTL < now

ServerPaths == {SavePath(k, b, fn) : k \in ServerCfg.kinds, b \in ServerCfg.bodies,
                                     fn \in ServerCfg.fnames}

\* C17: in the running server a document whose age is over the default TTL
\* is removed in the end, without any call of the cleanup tool.
C17_StaleEventuallyRemoved ==
    \A q \in ServerPaths : Stale(q) ~> (q \notin DOMAIN files)

\* C20: the list of resources a client is given has exactly one entry for
\* each document the store holds at that moment.
C20_ResourceListIsCurrent ==
    \A p \in Workers :
        (pc[p] = "ready" /\ loc[p].op = "list") =>
            /\ {ret[p].list[i] : i \in DocEntries(ret[p].list)}
                   = {PathURI(q) : q \in DOMAIN files}
            /\ Cardinality(DocEntries(ret[p].list)) = Cardinality(DOMAIN files)

\* C21: GET /health/ready answers 200 exactly when the three directories of
\* the store exist and, if a langextract host is configured, its health
\* endpoint answers 200; with no host configured the store alone decides;
\* every other answer is 503.
C21_ReadyIffStoreAndCollaborator ==
    \A p \in Workers :
        (pc[p] = "ready" /\ loc[p].op = "ready") =>
            LET dirs == loc[p].args[1]
                host == loc[p].args[2]
                answer == loc[p].args[3]
                ready == /\ {"root", "cv", "jd"} \subseteq dirs
                         /\ (host # <<>> => answer = "200")
            IN  ret[p].code = IF ready THEN 200 ELSE 503

\* the range of count the tool's interface gives
MinCount == 1

MaxCount == 20

\* C22: generate_interview_questions takes a count from 1 to 20 only, and 5
\* when none is given: a call with a count outside that range ends in an
\* error and yields no prompt.
C22_CountOutOfRangeRejected ==
    \A p \in Workers :
        (pc[p] = "ready" /\ loc[p].op = "interview") =>
            LET count == loc[p].args[4]
            IN  /\ (count.given /\ count.n \notin MinCount..MaxCount) =>
                       (ret[p].status = "error" /\ ret[p].prompt = <<>>)
                /\ (~count.given /\ ret[p].status = "ok") => ret[p].prompt[4] = DefaultCount

Analyzed(p) == pc[p] = "ready" /\ loc[p].op = "analyze" /\ ret[p].status = "ok"

\* C23: a text that is not empty after normalisation, analysed against
\* itself, gives match_percentage 100, skill_coverage 1.0 and no missing
\* skills, whether or not it holds a word of the skills dictionary.
C23_SelfAnalysisIsFullMatch ==
    \A p \in Workers :
        (/\ pc[p] = "ready" /\ loc[p].op = "analyze"
         /\ loc[p].args[1] = loc[p].args[2]
         /\ preprocessText(loc[p].args[1]) # <<>>) =>
            /\ ret[p].status = "ok"
            /\ ret[p].result.match_percentage = 100
            /\ ret[p].result.skill_coverage = 100
            /\ ret[p].result.missing_skills = <<>>

\* a list of terms in the one order the scores and the names fix: by score
\* descending, terms of equal score by name
Canonical(terms, score) ==
    \A i, j \in 1..Len(terms) :
        i < j => \/ score[terms[i]] > score[terms[j]]
                 \/ score[terms[i]] = score[terms[j]] /\ WordRank(terms[i]) < WordRank(terms[j])

\* C24: the result of Analyze is fixed by its two inputs: top_skills,
\* missing_skills and common_terms are in order of score, and terms of equal
\* score in lexicographic order.
C24_AnalyzeDeterministic ==
    \A p \in Workers :
        Analyzed(p) =>
            LET cvTerms == extractTermFrequenciesFromIndex(preprocessText(loc[p].args[1]))
                jdTerms == extractTermFrequenciesFromIndex(preprocessText(loc[p].args[2]))
                r == ret[p].result
            IN  /\ Canonical(r.top_skills, cvTerms)
                /\ Canonical(r.missing_skills, jdTerms)
                /\ Canonical([i \in 1..Len(r.common_terms) |-> r.common_terms[i].term], cvTerms)

\* the quotient num/den rounded to the nearest integer
RoundHalfUp(num, den) == (2 * num + den) \div (2 * den)

\* C25: match_percentage is 100 times the sum of the common weights over the
\* sum of the JD's weights, rounded to the nearest integer and clamped to
\* 0..100, and 0 when the JD's sum is 0.
C25_MatchPercentageRounded ==
    \A p \in Workers :
        Analyzed(p) =>
            LET r == ret[p].result
            IN  r.match_percentage =
                    IF r.jdTotalWeight = 0 THEN 0
                    ELSE Clamp(RoundHalfUp(100 * r.matchScore, r.jdTotalWeight), 0, 100)

\* C26: weighted_score is the weighted sum of the four clamped inputs under
\* the normalised weights, times 100, rounded to the nearest integer and
\* clamped to 0..100; skill coverage 1 alone under the default weights is 40.
C26_WeightedScoreRounded ==
    \A p \in Workers :
        (pc[p] = "ready" /\ loc[p].op = "score") =>
            LET inputs == loc[p].args[1]
                weights == Normalize(loc[p].args[2])
                num == Clamp(inputs[1], 0, 100) * weights[1] + Clamp(inputs[2], 0, 100) * weights[2]
                       + Clamp(inputs[3], 0, 100) * weights[3] + Clamp(inputs[4], 0, 100) * weights[4]
                den == weights[1] + weights[2] + weights[3] + weights[4]
            IN  /\ ret[p].result.score = Clamp(RoundHalfUp(num, den), 0, 100)
                /\ (inputs = <<100, 0, 0, 0>> /\ loc[p].args[2] = NewDefaultWeights) =>
                       ret[p].result.score = 40

SchemeOf(str) ==
    IF HasPrefix(str, <<"c", "v", ":", "/", "/">>) THEN "cv"
    ELSE IF HasPrefix(str, <<"j", "d", ":", "/", "/">>) THEN "jd"
    ELSE "none"

\* C27: ParseURI succeeds exactly on the strings that start with cv:// or
\* jd:// and go on for at least one character; the kind it returns is the
\* scheme and the ID is all that follows the scheme.
C27_ParseURIGrammar ==
    \A p \in Workers :
        (pc[p] = "ready" /\ loc[p].op = "parseuri") =>
            LET str == loc[p].args[1]
                wellFormed == SchemeOf(str) # "none" /\ Len(str) > 5
            IN  /\ (ret[p].status = "ok") <=> wellFormed
                /\ wellFormed => /\ ret[p].result.kind = SchemeOf(str)
                                 /\ ret[p].result.id = SubSeq(str, 6, Len(str))

C27_Witness ==
    \E p \in Workers :
        /\ pc[p] = "ready" /\ loc[p].op = "parseuri"
        /\ ret[p].status = "ok" /\ ret[p].result.kind = "jd" /\ Len(ret[p].result.id) = 2
        /\ prev[p].op = "parseuri" /\ prev[p].status = "error"

\* C28: a Read that succeeds for a URI a Save had returned when the Read
\* was called gives a whole file: the frontmatter and after it the content
\* the URI's ID was made from, also when writes of that content overlap.
C28_ReadOfReturnedURIIsWhole ==
    \A p \in Workers :
        (ReadOK(p) /\ loc[p].known /\ loc[p].view = "raw") =>
            IsFramed(ret[p].data, loc[p].uri)

\* the sweep of p removes a file in this step
Removes(p, q) == pc[p] = "cl_remove" /\ loc[p].path = q /\ q \in DOMAIN files /\ q \notin DOMAIN files'

\* C29: a sweep with TTL t removes no document for which a Save returned with
\* success less than t before the sweep, a Save that found the content
\* already stored included.
C29_FreshSaveIsRetained ==
    [][\A p \in Workers, q \in DOMAIN files :
           (/\ Removes(p, q)
            /\ prev[p].op = "save" /\ prev[p].status = "ok"
            /\ prev[p].uri = PathURI(q)) =>
               prev[p].at <= loc[p].cutoff]_vars

\* C30: Retry does not invoke fn once its context is cancelled; called with
\* a context that is cancelled already, it invokes fn not once and returns
\* the error that wraps the cancellation.
C30_NoCallAfterCancel ==
    \A p \in Workers :
        loc[p].op = "retry" =>
            /\ ~loc[p].ranAfterCancel
            /\ (pc[p] = "ready" /\ loc[p].args[1]) =>
                   (loc[p].calls = <<>> /\ ret[p].err = "cancelled")

====
